---- MODULE Spec2Model ----
(***************************************************************************)
(* Model of app/services/transcription_service.py:                         *)
(* TranscriptionService.transcribe_audio_with_diarization, one request     *)
(* processed step by step.                                                 *)
(*                                                                         *)
(* Times are integers counting ticks of 1/(100*TicksPerSlot) second, so    *)
(* that int(x * 100) truncates.  Texts are sequences of one-character      *)
(* strings, so that strip(), split(), lower() and startswith() are         *)
(* computed and not assumed.                                               *)
(***************************************************************************)
EXTENDS Integers, Sequences, FiniteSets, TLC

VARIABLES
    openai_key,            \* self.openai_key: "key" or None
    diarization_pipeline,  \* self.diarization_pipeline is not None
    pc,                    \* position in the method
    response_dict,         \* response.model_dump()
    diarization,           \* the tracks diarization.itertracks() yields, in order
    track,                 \* number of tracks already consumed by the first pass
    speaker_map,           \* slot -> speaker
    speaker_stats,         \* insertion-ordered dict, as a sequence of entries
    temp_segments,         \* attributed segments, raw speaker ids
    prev_speaker,
    prev_text,
    speaker_mapping,       \* speaker id -> normalized label
    segments,              \* SpeakerSegment list
    current_speaker_idx,   \* fallback branch
    exc,                   \* the exception in flight, or None
    result,                \* the TranscriptionResponse returned, or None
    uploads,               \* the upload directory: filename -> content of the file
    requests,              \* the /transcribe requests in flight, each with its locals
    running                \* the request that holds the event loop, or 0

vars == <<openai_key, diarization_pipeline, pc, response_dict, diarization, track,
          speaker_map, speaker_stats, temp_segments, prev_speaker, prev_text,
          speaker_mapping, segments, current_speaker_idx, exc, result,
          uploads, requests, running>>

\* state of the /transcribe endpoint
endpointVars == <<uploads, requests, running>>

\* state of one run of transcribe_audio_with_diarization
engineVars == <<pc, response_dict, diarization, track, speaker_map, speaker_stats,
                temp_segments, prev_speaker, prev_text, speaker_mapping, segments,
                current_speaker_idx, exc, result>>

None == "None"

----------------------------------------------------------------------------
\* Bounds of the model.

\* ticks per 1/100-second slot: a time t is t / (100 * TicksPerSlot) seconds
TicksPerSlot == 2
\* Spec: times are the slot boundaries 0..MaxSlot
MaxSlot == 2
\* Spec: tracks per diarization result
MaxTurns == 2
\* Spec: transcript segments per ASR response
MaxSegs == 2
\* Spec: distinct speaker ids the diarization engine may emit
NumSpeakers == 2
\* SpecMap: times are all the ticks 0..MapMaxTime
MapMaxTime == 4
\* SpecMap: tracks per diarization result
MapTurns == 3
\* SpecMap: distinct speaker ids
MapSpeakers == 3
\* SpecMap: transcript segments per ASR response
MapSegs == 1
\* SpecVote: times are the slot boundaries 0..VoteSlots
VoteSlots == 3
\* SpecFallback: transcript segments per ASR response
FallbackSegs == 4
\* SpecWorkers, SpecLoop: concurrent requests to /transcribe
NumRequests == 2

----------------------------------------------------------------------------
\* Generic helpers.

EmptyMap == [t \in {} |-> None]

----------------------------------------------------------------------------
\* Text: str methods used by the method, on sequences of characters.

IsSpace(c) == c = " "

\* str.lower() on one character
LowerChar(c) == IF c = "A" THEN "a" ELSE IF c = "B" THEN "b" ELSE c

\* str.lower()
Lower(s) == [i \in 1..Len(s) |-> LowerChar(s[i])]

RECURSIVE LStrip(_)
LStrip(s) == IF s # <<>> /\ IsSpace(Head(s)) THEN LStrip(Tail(s)) ELSE s

RECURSIVE RStrip(_)
RStrip(s) ==
    IF s # <<>> /\ IsSpace(s[Len(s)]) THEN RStrip(SubSeq(s, 1, Len(s) - 1)) ELSE s

\* str.strip()
Strip(s) == RStrip(LStrip(s))

\* str.split(): the maximal runs of non-whitespace characters, in order
RECURSIVE SplitFrom(_, _, _)
SplitFrom(s, i, word) ==
    IF i > Len(s)
    THEN IF word = <<>> THEN <<>> ELSE <<word>>
    ELSE IF IsSpace(s[i])
         THEN (IF word = <<>> THEN <<>> ELSE <<word>>) \o SplitFrom(s, i + 1, <<>>)
         ELSE SplitFrom(s, i + 1, Append(word, s[i]))

Split(s) == SplitFrom(s, 1, <<>>)

\* str.startswith(prefix)
StartsWith(s, prefix) ==
    /\ Len(prefix) <= Len(s)
    /\ SubSeq(s, 1, Len(prefix)) = prefix

\* sub in s
Contains(s, sub) ==
    \E i \in 1..(Len(s) - Len(sub) + 1) : SubSeq(s, i, i + Len(sub) - 1) = sub

Ellipsis == <<".", ".", ".">>

----------------------------------------------------------------------------
\* First pass (lines 66-81): speaker statistics and the time-indexed speaker map.

\* int(x * 100)
Slot(t) == t \div TicksPerSlot

\* range(int(start * 100), int(end * 100))
SlotRange(start, end) == Slot(start)..(Slot(end) - 1)

\* list(speaker_stats.keys())
StatsKeys(stats) == [i \in 1..Len(stats) |-> stats[i].speaker]

\* speaker in speaker_stats
InStats(stats, speaker) == \E i \in 1..Len(stats) : stats[i].speaker = speaker

\* the first_time a new entry is created with (line 74)
NewFirstTime(turn) == turn.start

\* lines 72-77
UpdateStats(stats, turn) ==
    LET withEntry ==
            IF InStats(stats, turn.speaker)
            THEN stats
            ELSE Append(stats, [speaker |-> turn.speaker,
                                first_time |-> NewFirstTime(turn),
                                total_time |-> 0])
    IN  [i \in 1..Len(withEntry) |->
            IF withEntry[i].speaker = turn.speaker
            THEN [withEntry[i] EXCEPT !.total_time = @ + (turn.end - turn.start)]
            ELSE withEntry[i]]

\* mutant: a slot already in the map keeps its speaker
WriteSlotsKeepFirst(map, turn) ==
    [t \in (DOMAIN map) \cup SlotRange(turn.start, turn.end) |->
        IF t \in DOMAIN map THEN map[t] ELSE turn.speaker]

\* lines 80-81
WriteSlots(map, turn) ==
    [t \in (DOMAIN map) \cup SlotRange(turn.start, turn.end) |->
        IF t \in SlotRange(turn.start, turn.end) THEN turn.speaker ELSE map[t]]

----------------------------------------------------------------------------
\* Second pass (lines 88-143): attribution of one transcript segment.

\* lines 94-97: the speakers met scanning the segment's slots in ascending order
RECURSIVE ScanSlots(_, _, _)
ScanSlots(map, t, last) ==
    IF t > last
    THEN <<>>
    ELSE (IF t \in DOMAIN map THEN <<map[t]>> ELSE <<>>) \o ScanSlots(map, t + 1, last)

SpeakersInSegment(map, start, end) == ScanSlots(map, Slot(start), Slot(end) - 1)

\* Counter(xs): the (key, count) items in insertion order, a key being inserted
\* when it is first met in xs
RECURSIVE CounterItems(_)
CounterItems(xs) ==
    IF xs = <<>>
    THEN <<>>
    ELSE LET init == CounterItems(SubSeq(xs, 1, Len(xs) - 1))
             x == xs[Len(xs)]
         IN  IF \E i \in 1..Len(init) : init[i].key = x
             THEN [i \in 1..Len(init) |->
                      IF init[i].key = x
                      THEN [init[i] EXCEPT !.count = @ + 1]
                      ELSE init[i]]
             ELSE Append(init, [key |-> x, count |-> 1])

\* mutant: a later item with an equal count replaces the best so far
RECURSIVE MaxByCountLast(_, _)
MaxByCountLast(best, items) ==
    IF items = <<>>
    THEN best
    ELSE MaxByCountLast(IF Head(items).count >= best.count THEN Head(items) ELSE best,
                        Tail(items))

\* max(items, key=itemgetter(1)): an item replaces the best so far only when
\* its count is strictly greater
RECURSIVE MaxByCount(_, _)
MaxByCount(best, items) ==
    IF items = <<>>
    THEN best
    ELSE MaxByCount(IF Head(items).count > best.count THEN Head(items) ELSE best,
                    Tail(items))

\* Counter(xs).most_common(1)[0][0], for non-empty xs
MostCommon(xs) ==
    LET items == CounterItems(xs)
    IN  MaxByCount(Head(items), Tail(items)).key

\* lines 108-114
EndsWithHesitation(ptext) ==
    LET words == Split(ptext)
    IN  \/ Contains(ptext, Ellipsis)
        \/ /\ Len(words) >= 2
           /\ words[Len(words)] = words[Len(words) - 1]

\* mutant: the comparison with the previous last word is case-sensitive
IsCompletionCaseSensitive(ptext, text) ==
    LET words == Split(ptext)
    IN  /\ EndsWithHesitation(ptext)
        /\ \/ StartsWith(text, words[Len(words)])
           \/ Len(Split(text)) <= 4

\* lines 117-124
IsCompletion(ptext, text) ==
    LET words == Split(ptext)
    IN  /\ EndsWithHesitation(ptext)
        /\ \/ StartsWith(Lower(text), Lower(words[Len(words)]))
           \/ Len(Split(text)) <= 4

\* line 130
OtherSpeakers(stats, pspeaker) == SelectSeq(StatsKeys(stats), LAMBDA s : s # pspeaker)

\* line 106: the guard of the hesitation repair
RepairGuard(pspeaker, ptext) == ptext # <<>> /\ pspeaker # None

\* lines 99-132: the speaker of a segment that has slots
VotedSpeaker(stats, pspeaker, ptext, text, speakers_in_segment) ==
    IF /\ RepairGuard(pspeaker, ptext)
       /\ IsCompletion(ptext, text)
       /\ OtherSpeakers(stats, pspeaker) # <<>>
    THEN OtherSpeakers(stats, pspeaker)[1]
    ELSE MostCommon(speakers_in_segment)

\* line 134 raises IndexError when there is neither a previous speaker nor a
\* speaker in speaker_stats
InheritRaises(stats, pspeaker) == pspeaker = None /\ stats = <<>>

\* line 134
InheritedSpeaker(stats, pspeaker) ==
    IF pspeaker # None THEN pspeaker ELSE StatsKeys(stats)[1]

----------------------------------------------------------------------------
\* Label normalisation (lines 146-158).

\* sorted(): insertion of x behind every element whose key is not greater
RECURSIVE InsertSorted(_, _)
InsertSorted(sorted, x) ==
    IF sorted = <<>>
    THEN <<x>>
    ELSE IF x.first_time < Head(sorted).first_time
         THEN <<x>> \o sorted
         ELSE <<Head(sorted)>> \o InsertSorted(Tail(sorted), x)

RECURSIVE SortByFirstTime(_)
SortByFirstTime(stats) ==
    IF stats = <<>>
    THEN <<>>
    ELSE InsertSorted(SortByFirstTime(SubSeq(stats, 1, Len(stats) - 1)),
                      stats[Len(stats)])

\* f"SPEAKER_{n}"
Label(n) == <<"SPEAKER", n>>

\* mutant: the labels are numbered from 0
SpeakerMappingFromZero(stats) ==
    LET sorted_speakers == SortByFirstTime(stats)
    IN  [s \in {stats[i].speaker : i \in 1..Len(stats)} |->
            Label((CHOOSE idx \in 1..Len(sorted_speakers) :
                       sorted_speakers[idx].speaker = s) - 1)]

\* lines 146-154
SpeakerMapping(stats) ==
    LET sorted_speakers == SortByFirstTime(stats)
    IN  [s \in {stats[i].speaker : i \in 1..Len(stats)} |->
            Label(CHOOSE idx \in 1..Len(sorted_speakers) :
                      sorted_speakers[idx].speaker = s)]

\* lines 157-164
ApplyMapping(temp, mapping) ==
    [i \in 1..Len(temp) |-> [temp[i] EXCEPT !.speaker = mapping[temp[i].speaker]]]

----------------------------------------------------------------------------
\* What the two engines may return.

AllSpeakers == <<"spk_A", "spk_B", "spk_C", "spk_D", "spk_E">>

SpeakerIds(n) == {AllSpeakers[i] : i \in 1..n}

\* the times 0..maxTime that are multiples of step
Times(step, maxTime) == {t \in 0..maxTime : t % step = 0}

\* a track of the diarization: a non-empty span and an opaque speaker id
Turns(times, nSpeakers) ==
    {t \in [start : times, end : times, speaker : SpeakerIds(nSpeakers)] :
        t.start < t.end}

\* transcript texts as the ASR engine returns them (not yet stripped)
TextPool ==
    { <<>>,
      <<" ", "a">>,
      <<"a", " ", "a", " ">>,
      <<"b", ".", ".", ".">>,
      <<"A", " ", "b", " ", "b", " ", "b", " ", "b">>,
      <<"b", " ", "b", " ", "b", " ", "b", " ", "a">> }

TranscriptSegments(times, texts) ==
    {s \in [start : times, end : times, text : texts] : s.start <= s.end}

\* segment lists are chronologically non-decreasing by start
Chronological(ss) == \A i \in 1..(Len(ss) - 1) : ss[i].start <= ss[i + 1].start

NoResponse == [segments |-> <<>>, text |-> <<>>, language |-> None]

----------------------------------------------------------------------------
\* The response models.

\* mutant: start and end passed in each other's place
SpeakerSegmentSwapped(speaker, start, end, text) ==
    [speaker |-> speaker, start |-> end, end |-> start, text |-> text]

SpeakerSegment(speaker, start, end, text) ==
    [speaker |-> speaker, start |-> start, end |-> end, text |-> text]

TranscriptionResponse(segs, full_transcript, language, duration) ==
    [segments |-> segs, full_transcript |-> full_transcript,
     language |-> language, duration |-> duration]

\* f"Error transcribing audio: {str(e)}"
ErrorText(e) == <<"Error transcribing audio: ", e>>

\* lines 188-198
ErrorResponse(e) ==
    TranscriptionResponse(<<SpeakerSegment("ERROR", 0, 0, ErrorText(e))>>,
                          ErrorText(e), "en", 0)

\* mutant: the first segment's end instead of the last one's
DurationOfFirst(segs) == IF segs # <<>> THEN segs[1].end ELSE 0

\* line 183
Duration(segs) == IF segs # <<>> THEN segs[Len(segs)].end ELSE 0

\* line 182: response_dict.get("language", "en")
LanguageOf(resp) == IF resp.language = None THEN "en" ELSE resp.language

\* lines 179-184
SuccessResponse(segs, resp) ==
    TranscriptionResponse(segs, resp.text, LanguageOf(resp), Duration(segs))

----------------------------------------------------------------------------
\* The /transcribe endpoint: requests and the upload directory.

Requests == 1..NumRequests

\* upload_file.filename, chosen by the client
Filenames == {"a.mp3", "b.mp3"}

\* the locals of one call of transcribe_audio, with what it has read and removed;
\* the content of a file is the number of the request whose upload it holds
IdleRequest ==
    [pc |-> "idle",
     filename |-> None,
     temp_file_path |-> None,
     asr_read |-> {},
     diarization_read |-> {},
     removed |-> {},
     cleaned |-> FALSE,
     response |-> None]

----------------------------------------------------------------------------
\* The method, step by step.

Init ==
    /\ openai_key \in {"key", None}
    /\ diarization_pipeline \in BOOLEAN
    /\ pc = "start"
    /\ response_dict = NoResponse
    /\ diarization = <<>>
    /\ track = 0
    /\ speaker_map = EmptyMap
    /\ speaker_stats = <<>>
    /\ temp_segments = <<>>
    /\ prev_speaker = None
    /\ prev_text = <<>>
    /\ speaker_mapping = EmptyMap
    /\ segments = <<>>
    /\ current_speaker_idx = 1
    /\ exc = None
    /\ result = None
    /\ uploads = EmptyMap
    /\ requests = [r \in Requests |-> IdleRequest]
    /\ running = {}

\* line 48, outside the try block: OpenAI(api_key=None) raises OpenAIError when
\* no key is configured (OPENAI_API_KEY = os.getenv("OPENAI_API_KEY"))
CreateClient ==
    /\ pc = "start"
    /\ IF openai_key = None
       THEN /\ exc' = "OpenAIError"
            /\ pc' = "raised"
       ELSE /\ exc' = exc
            /\ pc' = "transcribe"
    /\ UNCHANGED <<endpointVars, openai_key, speaker_mapping, diarization_pipeline, response_dict, diarization, track,
                   speaker_map, speaker_stats, temp_segments, prev_speaker, prev_text,
                   segments, current_speaker_idx, result>>

\* lines 52-62: open the file and call the ASR engine; either may raise.
\* response.model_dump() has up to maxSegs segments; language may be absent
Transcribe(maxSegs, times, texts, fulltexts, languages) ==
    /\ pc = "transcribe"
    /\ \/ /\ \E e \in {"FileNotFoundError", "APIError"} : exc' = e
          /\ pc' = "except"
          /\ UNCHANGED response_dict
       \/ /\ \E n \in 0..maxSegs :
                \E ss \in [1..n -> TranscriptSegments(times, texts)] :
                    \E full \in fulltexts, lang \in languages :
                        /\ Chronological(ss)
                        /\ response_dict' =
                               [segments |-> ss, text |-> full, language |-> lang]
          /\ pc' = IF diarization_pipeline THEN "diarize" ELSE "fallback"
          /\ UNCHANGED exc
    /\ UNCHANGED <<endpointVars, openai_key, speaker_mapping, diarization_pipeline, diarization, track,
                   speaker_map, speaker_stats, temp_segments, prev_speaker, prev_text,
                   segments, current_speaker_idx, result>>

\* line 64: the diarization call; it may raise, or return up to maxTurns tracks
Diarize(maxTurns, times, nSpeakers) ==
    /\ pc = "diarize"
    /\ \/ /\ exc' = "DiarizationError"
          /\ pc' = "except"
          /\ UNCHANGED diarization
       \/ /\ \E n \in 0..maxTurns :
                \E d \in [1..n -> Turns(times, nSpeakers)] : diarization' = d
          /\ pc' = "first_pass"
          /\ UNCHANGED exc
    /\ UNCHANGED <<endpointVars, openai_key, speaker_mapping, diarization_pipeline, response_dict, track,
                   speaker_map, speaker_stats, temp_segments, prev_speaker, prev_text,
                   segments, current_speaker_idx, result>>

\* lines 71-81: one iteration of the first pass, or its end
FirstPass ==
    /\ pc = "first_pass"
    /\ IF track < Len(diarization)
       THEN LET turn == diarization[track + 1]
            IN  /\ speaker_stats' = UpdateStats(speaker_stats, turn)
                /\ speaker_map' = WriteSlots(speaker_map, turn)
                /\ track' = track + 1
                /\ pc' = pc
       ELSE /\ pc' = "second_pass"
            /\ UNCHANGED <<speaker_stats, speaker_map, track>>
    /\ UNCHANGED <<endpointVars, openai_key, speaker_mapping, diarization_pipeline, response_dict, diarization,
                   temp_segments, prev_speaker, prev_text,
                   segments, current_speaker_idx, exc, result>>

\* lines 88-143: one iteration of the attribution loop, or its end
SecondPass ==
    /\ pc = "second_pass"
    /\ IF Len(temp_segments) < Len(response_dict.segments)
       THEN LET segment == response_dict.segments[Len(temp_segments) + 1]
                start == segment.start
                end == segment.end
                text == Strip(segment.text)
                speakers_in_segment == SpeakersInSegment(speaker_map, start, end)
            IN  IF speakers_in_segment = <<>> /\ InheritRaises(speaker_stats, prev_speaker)
                THEN /\ exc' = "IndexError"
                     /\ pc' = "except"
                     /\ UNCHANGED <<temp_segments, prev_speaker, prev_text>>
                ELSE LET speaker ==
                             IF speakers_in_segment # <<>>
                             THEN VotedSpeaker(speaker_stats, prev_speaker, prev_text,
                                               text, speakers_in_segment)
                             ELSE InheritedSpeaker(speaker_stats, prev_speaker)
                     IN  /\ temp_segments' =
                                Append(temp_segments,
                                       SpeakerSegment(speaker, start, end, text))
                         /\ prev_speaker' = speaker
                         /\ prev_text' = text
                         /\ UNCHANGED <<exc, pc>>
       ELSE /\ pc' = "normalize"
            /\ UNCHANGED <<temp_segments, prev_speaker, prev_text, exc>>
    /\ UNCHANGED <<endpointVars, openai_key, speaker_mapping, diarization_pipeline, response_dict, diarization, track,
                   speaker_map, speaker_stats, segments, current_speaker_idx, result>>

\* lines 146-164: the segments are relabelled in place, then converted
Normalize ==
    /\ pc = "normalize"
    /\ speaker_mapping' = SpeakerMapping(speaker_stats)
    /\ temp_segments' = ApplyMapping(temp_segments, speaker_mapping')
    /\ segments' = temp_segments'
    /\ pc' = "assemble"
    /\ UNCHANGED <<endpointVars, openai_key, diarization_pipeline, response_dict, diarization, track,
                   speaker_map, speaker_stats, prev_speaker, prev_text,
                   current_speaker_idx, exc, result>>

\* the label the fallback gives the current segment (line 171)
FallbackLabel(idx) == Label(idx)

\* mutant: the index counts up instead of toggling
NextSpeakerIdxCounting(idx) == idx + 1

\* line 177
NextSpeakerIdx(idx) == IF idx = 1 THEN 2 ELSE 1

\* lines 167-177: one iteration of the fallback loop, or its end
Fallback ==
    /\ pc = "fallback"
    /\ IF Len(segments) < Len(response_dict.segments)
       THEN LET segment == response_dict.segments[Len(segments) + 1]
            IN  /\ segments' =
                       Append(segments,
                              SpeakerSegment(FallbackLabel(current_speaker_idx),
                                             segment.start, segment.end,
                                             Strip(segment.text)))
                /\ current_speaker_idx' = NextSpeakerIdx(current_speaker_idx)
                /\ pc' = pc
       ELSE /\ pc' = "assemble"
            /\ UNCHANGED <<segments, current_speaker_idx>>
    /\ UNCHANGED <<endpointVars, openai_key, speaker_mapping, diarization_pipeline, response_dict, diarization, track,
                   speaker_map, speaker_stats, temp_segments, prev_speaker, prev_text,
                   exc, result>>

\* lines 179-184
Assemble ==
    /\ pc = "assemble"
    /\ result' = SuccessResponse(segments, response_dict)
    /\ pc' = "returned"
    /\ UNCHANGED <<endpointVars, openai_key, speaker_mapping, diarization_pipeline, response_dict, diarization, track,
                   speaker_map, speaker_stats, temp_segments, prev_speaker, prev_text,
                   segments, current_speaker_idx, exc>>

\* lines 186-198
HandleException ==
    /\ pc = "except"
    /\ result' = ErrorResponse(exc)
    /\ pc' = "returned"
    /\ UNCHANGED <<endpointVars, openai_key, speaker_mapping, diarization_pipeline, response_dict, diarization, track,
                   speaker_map, speaker_stats, temp_segments, prev_speaker, prev_text,
                   segments, current_speaker_idx, exc>>

----------------------------------------------------------------------------
\* Specification: every branch of the method, on small inputs.

FullTexts == {<<>>, <<" ", "a", " ", "a">>}

Languages == {"hi", None}

SlotTimes == Times(TicksPerSlot, MaxSlot * TicksPerSlot)

TranscribeAudio == Transcribe(MaxSegs, SlotTimes, TextPool, FullTexts, Languages)

RunDiarization == Diarize(MaxTurns, SlotTimes, NumSpeakers)

Next ==
    \/ CreateClient
    \/ TranscribeAudio
    \/ RunDiarization
    \/ FirstPass
    \/ SecondPass
    \/ Normalize
    \/ Fallback
    \/ Assemble
    \/ HandleException

Spec == Init /\ [][Next]_vars

----------------------------------------------------------------------------
\* SpecFallback: no diarization pipeline (pyannote missing or its pipeline
\* failed to load), longer transcripts.

FallbackTexts == {<<" ", "a">>, <<"b", " ", "b", " ", "b", " ", "b", " ", "a">>}

TranscribeFallback ==
    Transcribe(FallbackSegs, SlotTimes, FallbackTexts, {<<"a">>}, {"hi"})

InitFallback == Init /\ ~diarization_pipeline

NextFallback ==
    \/ CreateClient
    \/ TranscribeFallback
    \/ Fallback
    \/ Assemble
    \/ HandleException

SpecFallback == InitFallback /\ [][NextFallback]_vars

----------------------------------------------------------------------------
\* SpecMap: a diarization pipeline, more tracks and speakers, times that are
\* not slot boundaries.

MapTimes == Times(1, MapMaxTime)

MapTexts == {<<" ", "a">>}

TranscribeMap == Transcribe(MapSegs, SlotTimes, MapTexts, {<<"a">>}, {"hi"})

DiarizeMap == Diarize(MapTurns, MapTimes, MapSpeakers)

InitPipeline == Init /\ diarization_pipeline

NextMap ==
    \/ CreateClient
    \/ TranscribeMap
    \/ DiarizeMap
    \/ FirstPass
    \/ SecondPass
    \/ Normalize
    \/ Assemble
    \/ HandleException

SpecMap == InitPipeline /\ [][NextMap]_vars

----------------------------------------------------------------------------
\* SpecVote: a diarization pipeline, segments spanning more slots.

VoteTimes == Times(TicksPerSlot, VoteSlots * TicksPerSlot)

VoteTexts == {<<" ", "a">>, <<"a", " ", "a", " ">>,
              <<"b", " ", "b", " ", "b", " ", "b", " ", "a">>}

TranscribeVote == Transcribe(MaxSegs, VoteTimes, VoteTexts, {<<"a">>}, {"hi"})

DiarizeVote == Diarize(MaxTurns, VoteTimes, NumSpeakers)

NextVote ==
    \/ CreateClient
    \/ TranscribeVote
    \/ DiarizeVote
    \/ FirstPass
    \/ SecondPass
    \/ Normalize
    \/ Assemble
    \/ HandleException

SpecVote == InitPipeline /\ [][NextVote]_vars

----------------------------------------------------------------------------
\* Properties.

Returned == pc = "returned"

\* the method returned from its try block, not from its except block
ReturnedOk == pc = "returned" /\ exc = None

InputSegments == response_dict.segments

IsErrorSentinel(r) ==
    /\ Len(r.segments) = 1
    /\ r.segments[1].speaker = "ERROR"
    /\ r.segments[1].start = 0
    /\ r.segments[1].end = 0
    /\ r.segments[1].text = r.full_transcript
    /\ r.full_transcript[1] = "Error transcribing audio: "
    /\ r.language = "en"
    /\ r.duration = 0

\* C1: the method never raises to its caller: it always ends by returning a
\* Result, and after any failure that Result is the error sentinel (one segment,
\* speaker "ERROR", start 0.0, end 0.0, the failure description as segment text
\* and as full_transcript, language "en", duration 0.0).
C1_NeverRaises ==
    /\ pc # "raised"
    /\ Returned => DOMAIN result = {"segments", "full_transcript", "language", "duration"}
    /\ (Returned /\ exc # None) => IsErrorSentinel(result)

\* what does hold: only the client construction raises, and every failure
\* inside the try block ends in the error sentinel
FailuresInsideTryContained ==
    /\ pc = "raised" => exc = "OpenAIError"
    /\ (Returned /\ exc # None) => IsErrorSentinel(result)

\* C2 (as claimed): on a non-error return the output has as many segments as the
\* transcript, and the i-th output segment has the start, end and text of the
\* i-th transcript segment.
C2_SegmentsUnaltered ==
    ReturnedOk =>
        /\ Len(result.segments) = Len(InputSegments)
        /\ \A i \in 1..Len(InputSegments) :
              /\ result.segments[i].start = InputSegments[i].start
              /\ result.segments[i].end = InputSegments[i].end
              /\ result.segments[i].text = InputSegments[i].text

\* the text without its leading and trailing whitespace: the longest slice
\* that neither starts nor ends with a whitespace character
Trimmed(text) ==
    LET inner == {i \in 1..Len(text) : ~IsSpace(text[i])}
    IN  IF inner = {}
        THEN <<>>
        ELSE SubSeq(text,
                    CHOOSE i \in inner : \A j \in inner : i <= j,
                    CHOOSE i \in inner : \A j \in inner : i >= j)

\* C2 (amended): on a non-error return, on both paths, the output has as many
\* segments as the transcript, in the same order, and the i-th output segment has
\* the start and end of the i-th transcript segment and its text with leading and
\* trailing whitespace removed.
C2_SegmentsKeptTextTrimmed ==
    ReturnedOk =>
        /\ Len(result.segments) = Len(InputSegments)
        /\ \A i \in 1..Len(InputSegments) :
              /\ result.segments[i].start = InputSegments[i].start
              /\ result.segments[i].end = InputSegments[i].end
              /\ result.segments[i].text = Trimmed(InputSegments[i].text)

\* two segments with different spans went through the diarization path, and
\* the text of one was changed by the trimming
C2_Witness ==
    /\ ReturnedOk
    /\ diarization_pipeline
    /\ Len(InputSegments) = 2
    /\ InputSegments[1].end < InputSegments[2].start
    /\ InputSegments[2].start < InputSegments[2].end
    /\ result.segments[1].text # InputSegments[1].text
    /\ result.segments[2].text = InputSegments[2].text

\* C6: without a diarization pipeline the segment at 0-based index i is labelled
\* SPEAKER_1 when i is even and SPEAKER_2 when i is odd, whatever its start, end
\* and text, and the returned Result has one attribution per transcript segment.
C6_FallbackAlternates ==
    ~diarization_pipeline =>
        /\ \A i \in 1..Len(segments) :
              segments[i].speaker = <<"SPEAKER", IF (i - 1) % 2 = 0 THEN 1 ELSE 2>>
        /\ ReturnedOk =>
              /\ result.segments = segments
              /\ Len(result.segments) = Len(InputSegments)

\* four segments, not all alike, were labelled by the fallback
C6_Witness ==
    /\ ReturnedOk
    /\ ~diarization_pipeline
    /\ Len(result.segments) = 4
    /\ result.segments[1].text # result.segments[3].text
    /\ result.segments[2].start # result.segments[4].start

\* C7: on a non-error return, duration is the end of the last output segment,
\* or 0.0 without segments; an empty transcript gives no segments, duration 0.0
\* and the ASR full text as full_transcript, with or without a pipeline.
C7_Duration ==
    ReturnedOk =>
        /\ result.duration =
              IF Len(result.segments) = 0
              THEN 0
              ELSE result.segments[Len(result.segments)].end
        /\ InputSegments = <<>> =>
              /\ result.segments = <<>>
              /\ result.duration = 0
              /\ result.full_transcript = response_dict.text

\* two segments with different ends were returned; the duration is the second's
C7_Witness ==
    /\ ReturnedOk
    /\ Len(result.segments) = 2
    /\ result.segments[1].end # result.segments[2].end
    /\ result.duration = result.segments[2].end
    /\ result.full_transcript # <<>>

\* the attribution loop has run or is running: temp_segments holds raw speaker
\* ids and speaker_map and speaker_stats are complete
RawPhase == pc \in {"second_pass", "normalize"}

\* the segment has at least one slot of the speaker map in its span
HasSlots(seg) ==
    \E t \in DOMAIN speaker_map :
        /\ seg.start \div TicksPerSlot <= t
        /\ t < seg.end \div TicksPerSlot

LastWord(text) == Split(text)[Len(Split(text))]

\* the text contains "..." or its last two words are identical
Hesitant(text) ==
    \/ \E i \in 1..(Len(text) - 2) : text[i] = "." /\ text[i + 1] = "." /\ text[i + 2] = "."
    \/ /\ Len(Split(text)) >= 2
       /\ Split(text)[Len(Split(text)) - 1] = LastWord(text)

\* the text starts, case-insensitively, with the previous text's last word, or
\* has at most 4 words
Completes(ptext, text) ==
    \/ /\ Len(text) >= Len(LastWord(ptext))
       /\ \A k \in 1..Len(LastWord(ptext)) :
             LowerChar(text[k]) = LowerChar(LastWord(ptext)[k])
    \/ Len(Split(text)) <= 4

\* the previous segment has text and is hesitant, and the current one completes it
RepairTexts(prev, cur) ==
    /\ prev.text # <<>>
    /\ Hesitant(prev.text)
    /\ Completes(prev.text, cur.text)

\* ... and the diarization has a speaker other than the previous segment's
RepairCase(prev, cur) ==
    /\ RepairTexts(prev, cur)
    /\ \E j \in 1..Len(diarization) : diarization[j].speaker # prev.speaker

DiarizedSpeakers == {diarization[j].speaker : j \in 1..Len(diarization)}

\* the first speaker in speaker_stats order that is not the given one
FirstOtherSpeaker(speaker) ==
    LET others == {i \in 1..Len(speaker_stats) : speaker_stats[i].speaker # speaker}
    IN  speaker_stats[CHOOSE i \in others : \A j \in others : i <= j].speaker

C10_NoSlotsInheritsNeverError ==
    /\ exc # "IndexError"
    /\ RawPhase =>
          \A i \in 1..Len(temp_segments) :
              ~HasSlots(temp_segments[i]) =>
                  temp_segments[i].speaker =
                      IF i > 1
                      THEN temp_segments[i - 1].speaker
                      ELSE speaker_stats[1].speaker

\* the inheritance alone, without "never an error"
NoSlotsInherits ==
    RawPhase =>
        \A i \in 1..Len(temp_segments) :
            ~HasSlots(temp_segments[i]) =>
                temp_segments[i].speaker =
                    IF i > 1
                    THEN temp_segments[i - 1].speaker
                    ELSE speaker_stats[1].speaker

\* the label mapping has been built
MappingBuilt == pc \in {"assemble", "returned"} /\ exc = None /\ diarization_pipeline

\* the earliest start among the speaker's tracks
EarliestStart(speaker) ==
    LET starts == {diarization[j].start :
                      j \in {k \in 1..Len(diarization) : diarization[k].speaker = speaker}}
    IN  CHOOSE m \in starts : \A x \in starts : m <= x

LabelNumber(label) == label[2]

\* C3 (as claimed): with the tracks in any order, a speaker whose earliest track
\* starts strictly before another's gets the strictly smaller label number, and
\* each first_time is the minimum start over the speaker's tracks.
C3_LabelsFollowEarliestStart ==
    /\ MappingBuilt =>
          \A a, b \in DiarizedSpeakers :
              EarliestStart(a) < EarliestStart(b) =>
                  LabelNumber(speaker_mapping[a]) < LabelNumber(speaker_mapping[b])
    /\ \A i \in 1..Len(speaker_stats) :
          speaker_stats[i].first_time = EarliestStart(speaker_stats[i].speaker)

\* the slot lies in the span the track writes
Covers(turn, t) ==
    /\ turn.start \div TicksPerSlot <= t
    /\ t < turn.end \div TicksPerSlot

\* C5: the label mapping is a bijection from the speaker ids of the diarization
\* onto SPEAKER_1..SPEAKER_k, k the number of distinct ids, and every speaker id
\* given to a segment is a key of the mapping.
C5_DenseLabels ==
    /\ MappingBuilt =>
          /\ DOMAIN speaker_mapping = DiarizedSpeakers
          /\ {speaker_mapping[sp] : sp \in DiarizedSpeakers} =
                 {<<"SPEAKER", n>> : n \in 1..Cardinality(DiarizedSpeakers)}
          /\ \A a, b \in DiarizedSpeakers :
                 speaker_mapping[a] = speaker_mapping[b] => a = b
          /\ \A i \in 1..Len(segments) :
                 \E sp \in DiarizedSpeakers : segments[i].speaker = speaker_mapping[sp]
    /\ RawPhase =>
          \A i \in 1..Len(temp_segments) : temp_segments[i].speaker \in DiarizedSpeakers

\* three speakers, one of them without any slot in the map, and a labelled segment
C5_Witness ==
    /\ MappingBuilt
    /\ Cardinality(DiarizedSpeakers) = 3
    /\ \E sp \in DiarizedSpeakers : \A t \in DOMAIN speaker_map : speaker_map[t] # sp
    /\ Len(segments) = 1
    /\ LabelNumber(segments[1].speaker) = 3

SegmentSlots(seg) ==
    {t \in DOMAIN speaker_map :
        seg.start \div TicksPerSlot <= t /\ t < seg.end \div TicksPerSlot}

SlotCount(seg, speaker) ==
    Cardinality({t \in SegmentSlots(seg) : speaker_map[t] = speaker})

FirstSlot(seg, speaker) ==
    LET own == {t \in SegmentSlots(seg) : speaker_map[t] = speaker}
    IN  CHOOSE t \in own : \A u \in own : t <= u

\* the hesitation repair overrides the vote for the i-th segment
Overridden(i) == i > 1 /\ RepairCase(temp_segments[i - 1], temp_segments[i])

\* C9: a segment with slots, not overridden by the hesitation repair, gets a
\* speaker with the largest slot count in its span; among speakers with that
\* count, the one whose slot comes first in the span.
C9_MajorityThenFirstMet ==
    RawPhase =>
        \A i \in 1..Len(temp_segments) :
            LET seg == temp_segments[i]
            IN  (HasSlots(seg) /\ ~Overridden(i)) =>
                    /\ SlotCount(seg, seg.speaker) > 0
                    /\ \A sp \in DiarizedSpeakers :
                          /\ SlotCount(seg, sp) <= SlotCount(seg, seg.speaker)
                          /\ (sp # seg.speaker
                                 /\ SlotCount(seg, sp) = SlotCount(seg, seg.speaker)) =>
                                 FirstSlot(seg, seg.speaker) < FirstSlot(seg, sp)

\* a segment whose slots are split evenly between two speakers went to the one
\* met first, who is the second in speaker_stats order
C9_Witness ==
    /\ pc = "normalize"
    /\ Len(temp_segments) = 1
    /\ Len(speaker_stats) = 2
    /\ SlotCount(temp_segments[1], speaker_stats[1].speaker) = 1
    /\ SlotCount(temp_segments[1], speaker_stats[2].speaker) = 1
    /\ temp_segments[1].speaker = speaker_stats[2].speaker
    /\ FirstSlot(temp_segments[1], speaker_stats[2].speaker)
           < FirstSlot(temp_segments[1], speaker_stats[1].speaker)

----------------------------------------------------------------------------
\* The /transcribe endpoint (app/api/endpoints/transcription.py) with
\* save_upload_file and remove_file (app/utils/file_utils.py).  The run of the
\* engine is reduced to its two reads of the file, lines 52 and 64 of
\* transcription_service.py, and its outcome.
\*
\* With loop = TRUE all requests are coroutines of one event loop: a request runs
\* alone from one suspension point to the next, and the only await of the
\* handler that suspends is file.seek(0) (save_upload_file and the engine are
\* coroutines without a suspending await).  With loop = FALSE the requests are
\* served by separate worker processes over the same upload directory, and
\* their steps interleave freely.

Holds(r, loop) == loop => running \subseteq {r}

\* the request goes on without suspending
Keep(r, loop) == running' = IF loop THEN {r} ELSE running

\* the request suspends or ends
Yield(loop) == running' = IF loop THEN {} ELSE running

EngineIdle == UNCHANGED <<openai_key, diarization_pipeline, engineVars>>

\* open(destination, "wb") and shutil.copyfileobj: the file is created or replaced
WriteFile(dir, name, content) ==
    [f \in (DOMAIN dir) \cup {name} |-> IF f = name THEN content ELSE dir[f]]

\* os.remove
DeleteFile(dir, name) == [f \in (DOMAIN dir) \ {name} |-> dir[f]]

\* a request arrives with the filename its client chose
Receive(r) ==
    /\ requests[r].pc = "idle"
    /\ \E name \in Filenames :
          requests' = [requests EXCEPT ![r].pc = "validate", ![r].filename = name]
    /\ UNCHANGED <<uploads, running>>
    /\ EngineIdle

\* lines 36-50: content type and size checks
Validate(r, loop) ==
    /\ requests[r].pc = "validate"
    /\ Holds(r, loop)
    /\ \/ /\ \E status \in {"http_400", "http_413"} :
                requests' = [requests EXCEPT ![r].pc = "done", ![r].response = status]
          /\ Yield(loop)
       \/ /\ requests' = [requests EXCEPT ![r].pc = "seek"]
          /\ Keep(r, loop)
    /\ UNCHANGED uploads
    /\ EngineIdle

\* line 53: await file.seek(0)
SeekFile(r, loop) ==
    /\ requests[r].pc = "seek"
    /\ Holds(r, loop)
    /\ requests' = [requests EXCEPT ![r].pc = "save"]
    /\ Yield(loop)
    /\ UNCHANGED uploads
    /\ EngineIdle

\* line 58 and file_utils.py lines 10-28: the destination is the upload
\* directory joined with the client's filename; writing may fail
SaveUpload(r, loop) ==
    /\ requests[r].pc = "save"
    /\ Holds(r, loop)
    /\ \/ /\ requests' = [requests EXCEPT ![r].pc = "done",
                                          ![r].response = "http_500_save"]
          /\ UNCHANGED uploads
          /\ Yield(loop)
       \/ /\ uploads' = WriteFile(uploads, requests[r].filename, r)
          /\ requests' = [requests EXCEPT ![r].pc = "invoke",
                                          ![r].temp_file_path = requests[r].filename]
          /\ Keep(r, loop)
    /\ EngineIdle

\* line 61, transcription_service.py lines 48-62: the client is built, the file
\* opened and sent to the ASR engine
InvokeTranscription(r, loop) ==
    LET path == requests[r].temp_file_path
    IN  /\ requests[r].pc = "invoke"
        /\ Holds(r, loop)
        /\ IF openai_key = None
           THEN requests' = [requests EXCEPT ![r].pc = "cleanup",
                                             ![r].response = "http_500_no_key"]
           ELSE IF path \notin DOMAIN uploads
           THEN requests' = [requests EXCEPT ![r].pc = "cleanup",
                                             ![r].response = "sentinel_missing_file"]
           ELSE \/ requests' = [requests EXCEPT ![r].pc = "cleanup",
                                                ![r].asr_read = {uploads[path]},
                                                ![r].response = "sentinel_engine"]
                \/ /\ diarization_pipeline
                   /\ requests' = [requests EXCEPT ![r].pc = "diarize",
                                                   ![r].asr_read = {uploads[path]}]
                \/ /\ ~diarization_pipeline
                   /\ requests' = [requests EXCEPT ![r].pc = "cleanup",
                                                   ![r].asr_read = {uploads[path]},
                                                   ![r].response = "result"]
        /\ Keep(r, loop)
        /\ UNCHANGED uploads
        /\ EngineIdle

\* transcription_service.py line 64: the pipeline reads the file again
InvokeDiarization(r, loop) ==
    LET path == requests[r].temp_file_path
    IN  /\ requests[r].pc = "diarize"
        /\ Holds(r, loop)
        /\ IF path \notin DOMAIN uploads
           THEN requests' = [requests EXCEPT ![r].pc = "cleanup",
                                             ![r].response = "sentinel_missing_file"]
           ELSE \E outcome \in {"result", "sentinel_engine"} :
                    requests' = [requests EXCEPT ![r].pc = "cleanup",
                                                 ![r].diarization_read = {uploads[path]},
                                                 ![r].response = outcome]
        /\ Keep(r, loop)
        /\ UNCHANGED uploads
        /\ EngineIdle

\* lines 71-74 and file_utils.py line 38: if file_path.exists()
CleanupExists(r, loop) ==
    /\ requests[r].pc = "cleanup"
    /\ Holds(r, loop)
    /\ IF requests[r].temp_file_path \in DOMAIN uploads
       THEN /\ requests' = [requests EXCEPT ![r].pc = "remove"]
            /\ Keep(r, loop)
       ELSE /\ requests' = [requests EXCEPT ![r].pc = "done", ![r].cleaned = TRUE]
            /\ Yield(loop)
    /\ UNCHANGED uploads
    /\ EngineIdle

\* file_utils.py line 39: os.remove(file_path); it raises when the file has gone
\* since the check
RemoveFile(r, loop) ==
    LET path == requests[r].temp_file_path
    IN  /\ requests[r].pc = "remove"
        /\ Holds(r, loop)
        /\ IF path \in DOMAIN uploads
           THEN /\ uploads' = DeleteFile(uploads, path)
                /\ requests' = [requests EXCEPT ![r].pc = "done",
                                                ![r].cleaned = TRUE,
                                                ![r].removed = {uploads[path]}]
           ELSE /\ UNCHANGED uploads
                /\ requests' = [requests EXCEPT ![r].pc = "done",
                                                ![r].cleaned = TRUE,
                                                ![r].response = "http_500_remove"]
        /\ Yield(loop)
        /\ EngineIdle

HandlerStep(r, loop) ==
    \/ Receive(r)
    \/ Validate(r, loop)
    \/ SeekFile(r, loop)
    \/ SaveUpload(r, loop)
    \/ InvokeTranscription(r, loop)
    \/ InvokeDiarization(r, loop)
    \/ CleanupExists(r, loop)
    \/ RemoveFile(r, loop)

\* SpecWorkers: the requests are served by several worker processes
NextWorkers == \E r \in Requests : HandlerStep(r, FALSE)

SpecWorkers == Init /\ [][NextWorkers]_vars

\* SpecLoop: the requests are served by one event loop
NextLoop == \E r \in Requests : HandlerStep(r, TRUE)

SpecLoop == Init /\ [][NextLoop]_vars

\* the request has saved its upload and its engine invocation has not returned
Invoking(r) == requests[r].pc \in {"invoke", "diarize"}

\* C11: for every interleaving of the requests, same filenames included, each
\* request's engine invocation reads the file this request saved, that file
\* exists from the save until the invocation returns, the cleanup removes only
\* the request's own file and has run once a request that saved a file is done,
\* and no response is the effect of another request.
C11_RequestsIndependent ==
    \A r \in Requests :
        /\ requests[r].asr_read \subseteq {r}
        /\ requests[r].diarization_read \subseteq {r}
        /\ Invoking(r) =>
              /\ requests[r].temp_file_path \in DOMAIN uploads
              /\ uploads[requests[r].temp_file_path] = r
        /\ requests[r].removed \subseteq {r}
        /\ (requests[r].pc = "done" /\ requests[r].temp_file_path # None) =>
              requests[r].cleaned
        /\ requests[r].response \notin {"sentinel_missing_file", "http_500_remove"}

\* two requests with the same filename were both inside their invocation
SameNameOverlap ==
    \E r1, r2 \in Requests :
        /\ r1 # r2
        /\ Invoking(r1)
        /\ Invoking(r2)
        /\ requests[r1].temp_file_path = requests[r2].temp_file_path

\* under one event loop no two requests are ever between save and cleanup
OneAtATime ==
    \A r1, r2 \in Requests :
        (r1 # r2 /\ requests[r1].pc \in {"invoke", "diarize", "cleanup", "remove"}) =>
            requests[r2].pc \notin {"invoke", "diarize", "cleanup", "remove"}

====
